---------------------------- MODULE Spec2Model ----------------------------
(***************************************************************************)
(* A model of the three programs of DesignPatternsCpp:                     *)
(*   DependencyInvPrinciple.cpp  ("dip")  Relationships / Research         *)
(*   OpenClosedPrinciple.cpp     ("ocp")  Specification / BetterFilter     *)
(*   SingleResponsibility.cpp    ("srp")  Journal / PersistenceManager     *)
(* The three are separate executables: a behaviour runs one of them, which *)
(* the variable `program` names.  Strings the programs build or write are  *)
(* sequences of one-character strings, so that formatting and reading back *)
(* are computed and not assumed.                                           *)
(***************************************************************************)
EXTENDS Integers, Sequences, FiniteSets, TLC

VARIABLES
  program,      \* which executable this behaviour is: "dip", "ocp" or "srp"
  lastOp,       \* the last operation called and its arguments
  repeated,     \* whether that call repeats the call before it, same arguments
  relations,    \* dip: Relationships::relations
  addCalls,     \* dip: number of add_parent_and_child calls made so far
  queryResult,  \* dip: what the last find_all_children_of returned
  all,          \* ocp: the items vector of main
  declared,     \* ocp: the specification object declared for the filter calls
  filterResult, \* ocp: what the last filter call returned
  crashed,      \* ocp: the process died in a call through a dangling reference
  count,        \* srp: the static int count of Journal::add
  journals,     \* srp: each Journal's entries
  calls,        \* srp: every Journal::add call made so far, in order
  files,        \* srp: the content of each destination
  streamFailed, \* srp: whether the last save's ofstream ended in a failed state
  callerSees    \* srp: what the last save gave its caller

vars == <<program, lastOp, repeated, relations, addCalls, queryResult,
          all, declared, filterResult, crashed,
          count, journals, calls, files, streamFailed, callerSees>>

dipVars == <<relations, addCalls, queryResult>>
ocpVars == <<all, declared, filterResult, crashed>>
srpVars == <<count, journals, calls, files, streamFailed, callerSees>>

NoOp == [kind |-> "none"]

NoSpec == [kind |-> "none"]

(***************************************************************************)
(* DependencyInvPrinciple.cpp                                              *)
(***************************************************************************)

\* How many add_parent_and_child calls a behaviour makes at most.
MaxAddCalls == 3

Names == {"John", "Chris", "Matt"}

\* The names a query may ask for: the people, and one nobody mentions.
QueryNames == Names \cup {"Nobody"}

Person(n) == [name |-> n]

\* add_parent_and_child without its second push_back.
add_parent_only(rels, parent, child) ==
  Append(rels, <<parent, "parent", child>>)

add_parent_and_child(rels, parent, child) ==
  Append(Append(rels, <<parent, "parent", child>>),
         <<child, "child", parent>>)

RECURSIVE find_loop(_, _, _, _)
find_loop(rels, name, i, result) ==
  IF i > Len(rels) THEN result
  ELSE LET first  == rels[i][1]
           rel    == rels[i][2]
           second == rels[i][3]
       IN IF first.name = name /\ rel = "parent"
          THEN find_loop(rels, name, i + 1, Append(result, second))
          ELSE find_loop(rels, name, i + 1, result)

\* find_all_children_of without the test rel == Relationship::parent.
find_any_relation_of(rels, name) ==
  LET m == SelectSeq(rels, LAMBDA f : f[1].name = name)
  IN [i \in 1..Len(m) |-> m[i][3]]

find_all_children_of(rels, name) == find_loop(rels, name, 1, <<>>)

AddParentAndChild(p, c) ==
  /\ program = "dip"
  /\ relations' = add_parent_and_child(relations, Person(p), Person(c))
  /\ addCalls' = addCalls + 1
  /\ repeated' = (lastOp.kind = "add_parent_and_child" /\ lastOp.arg = <<p, c>>)
  /\ lastOp' = [kind |-> "add_parent_and_child", arg |-> <<p, c>>]
  /\ UNCHANGED <<program, queryResult, ocpVars, srpVars>>

FindAllChildrenOf(name) ==
  /\ program = "dip"
  /\ queryResult' = find_all_children_of(relations, name)
  /\ repeated' = (lastOp.kind = "find_all_children_of" /\ lastOp.arg = name)
  /\ lastOp' = [kind |-> "find_all_children_of", arg |-> name]
  /\ UNCHANGED <<program, relations, addCalls, ocpVars, srpVars>>

NextDIP ==
  \/ \E p \in Names, c \in Names : addCalls < MaxAddCalls /\ AddParentAndChild(p, c)
  \/ \E name \in QueryNames : FindAllChildrenOf(name)

InitDIPVars ==
  /\ relations = <<>>
  /\ addCalls = 0
  /\ queryResult = <<>>

InitOCPVars ==
  /\ all = <<>>
  /\ declared = NoSpec
  /\ filterResult = <<>>
  /\ crashed = FALSE

InitSRPVars ==
  /\ count = 1
  /\ journals = <<>>
  /\ calls = <<>>
  /\ files = <<>>
  /\ streamFailed = FALSE
  /\ callerSees = "nothing"

InitDIP ==
  /\ program = "dip"
  /\ lastOp = NoOp
  /\ repeated = FALSE
  /\ InitDIPVars /\ InitOCPVars /\ InitSRPVars

SpecDIP == InitDIP /\ [][NextDIP]_vars

\* The objects of the stored facts (name, parent, .), in storage order.
ChildrenFacts(name) ==
  LET m == SelectSeq(relations, LAMBDA f : f[1] = Person(name) /\ f[2] = "parent")
  IN [i \in 1..Len(m) |-> m[i][3]]

HasParentFact(name) ==
  \E i \in 1..Len(relations) :
    relations[i][1].name = name /\ relations[i][2] = "parent"

\* C1: after any sequence of add_parent_and_child calls, find_all_children_of(name)
\* returns exactly the objects of the stored (name, parent, .) facts, in storage
\* order and with multiplicity, and the empty sequence for a name with no parent
\* fact (a name that is only a child, or that does not occur at all).
C1_FindReturnsChildren ==
  lastOp.kind = "find_all_children_of" =>
    /\ queryResult = ChildrenFacts(lastOp.arg)
    /\ (~HasParentFact(lastOp.arg) => queryResult = <<>>)

\* The scenario of main: John's children are Chris and Matt, in that order.
C1_Witness ==
  /\ lastOp.kind = "find_all_children_of"
  /\ lastOp.arg = "John"
  /\ Len(relations) = 4
  /\ queryResult = <<Person("Chris"), Person("Matt")>>

\* Every parent fact sits at an odd position and its child fact follows it.
SymmetricPairs ==
  \A i \in 1..Len(relations) :
    IF i % 2 = 1
    THEN /\ relations[i][2] = "parent"
         /\ i + 1 <= Len(relations)
         /\ relations[i + 1] = <<relations[i][3], "child", relations[i][1]>>
    ELSE relations[i][2] = "child"

\* C9: the store is append-only and symmetric: each add_parent_and_child(A, B)
\* appends exactly (A, parent, B) then (B, child, A) and leaves the earlier facts
\* as they were, the store holds 2 x (number of add calls) facts, every parent
\* fact is followed by its child fact, and find_all_children_of leaves the store
\* unchanged.
C9_AppendOnlySymmetric ==
  /\ [](Len(relations) = 2 * addCalls /\ SymmetricPairs)
  /\ [][/\ Len(relations') >= Len(relations)
        /\ SubSeq(relations', 1, Len(relations)) = relations
        /\ (addCalls' # addCalls =>
              LET A == Person(lastOp'.arg[1])
                  B == Person(lastOp'.arg[2])
              IN relations' = relations \o <<<<A, "parent", B>>, <<B, "child", A>>>>)
        /\ (lastOp'.kind = "find_all_children_of" => relations' = relations)]_vars

\* Three add calls, then a query: six facts stored.
C9_Witness ==
  /\ addCalls = 3
  /\ Len(relations) = 6
  /\ lastOp.kind = "find_all_children_of"

(***************************************************************************)
(* OpenClosedPrinciple.cpp                                                 *)
(***************************************************************************)

\* The longest items vector handed to filter.
MaxItems == 3

Colors == {"red", "green", "blue"}
Sizes == {"small", "medium", "large"}

\* The Product objects of main, each named by its address.
Products == {"apple", "tree", "house"}

Product(p) ==
  CASE p = "apple" -> [name |-> "Apple", color |-> "green", size |-> "small"]
    [] p = "tree"  -> [name |-> "Tree",  color |-> "green", size |-> "large"]
    [] p = "house" -> [name |-> "House", color |-> "blue",  size |-> "large"]

\* Every vector<Product*> of at most MaxItems pointers; a pointer may repeat.
ItemSeqs == UNION {[1..n -> Products] : n \in 0..MaxItems}

\* A specification object is the record of its members; a reference member is
\* the object it refers to, as that object is when the holder is used: alive,
\* or already destroyed (a temporary whose full-expression has ended).
ColorSpecification(color) == [kind |-> "color", color |-> color, alive |-> TRUE]

SizeSpecification(size) == [kind |-> "size", size |-> size, alive |-> TRUE]

AndSpecification(first, second) ==
  [kind |-> "and", first |-> first, second |-> second, alive |-> TRUE]

\* Specification::operator&& : a composite that refers to *this and to other.
operator_and(this, other) == AndSpecification(this, other)

\* The object after its destructor has run.
Destroyed(spec) == [spec EXCEPT !.alive = FALSE]

\* `auto s = (a && b) && c;` : the inner composite is a temporary, destroyed at
\* the end of the declaration, and s.first goes on referring to it.
and_of_temporary(a, b, c) == operator_and(Destroyed(operator_and(a, b)), c)

Bool(b) == IF b THEN "true" ELSE "false"

\* What a virtual call of is_satisfied can do: return true or false, or, made
\* through a reference to a destroyed object (undefined behaviour), any of
\* these or the death of the process.
RECURSIVE is_satisfied(_, _)
RECURSIVE and_is_satisfied(_, _)

color_is_satisfied(spec, item) == {Bool(Product(item).color = spec.color)}

size_is_satisfied(spec, item) == {Bool(Product(item).size = spec.size)}

\* AndSpecification::is_satisfied with || for &&.
or_is_satisfied(spec, item) ==
  UNION {IF o = "false" THEN is_satisfied(spec.second, item) ELSE {o} :
           o \in is_satisfied(spec.first, item)}

\* first.is_satisfied(item) && second.is_satisfied(item): the second call is
\* made only when the first returned true.
and_is_satisfied(spec, item) ==
  UNION {IF o = "true" THEN is_satisfied(spec.second, item) ELSE {o} :
           o \in is_satisfied(spec.first, item)}

is_satisfied(spec, item) ==
  IF ~spec.alive THEN {"true", "false", "crash"}
  ELSE CASE spec.kind = "color" -> color_is_satisfied(spec, item)
         [] spec.kind = "size"  -> size_is_satisfied(spec, item)
         [] spec.kind = "and"   -> and_is_satisfied(spec, item)

\* BetterFilter::filter's loop: every way it can end, given what each
\* is_satisfied call can do.
RECURSIVE filter_loop(_, _, _, _)
filter_loop(items, spec, i, result) ==
  IF i > Len(items) THEN {[crashed |-> FALSE, result |-> result]}
  ELSE UNION {
         CASE o = "crash" -> {[crashed |-> TRUE, result |-> <<>>]}
           [] o = "true"  -> filter_loop(items, spec, i + 1, Append(result, items[i]))
           [] o = "false" -> filter_loop(items, spec, i + 1, result) :
         o \in is_satisfied(spec, items[i])}

\* BetterFilter::filter that stops at the first item the specification rejects.
filter_until_rejected(items, spec) ==
  LET ok(i) == is_satisfied(spec, items[i]) = {"true"}
      upto == {n \in 0..Len(items) : \A i \in 1..n : ok(i)}
      n == CHOOSE m \in upto : \A k \in upto : k <= m
  IN {[crashed |-> FALSE, result |-> SubSeq(items, 1, n)]}

filter(items, spec) == filter_loop(items, spec, 1, <<>>)

\* The objects a composite is declared from: a leaf, or a named composite of
\* two leaves (`auto ab = a && b;`), which stays alive.
Leaves == {ColorSpecification(c) : c \in Colors} \cup {SizeSpecification(z) : z \in Sizes}

Operands == Leaves \cup {operator_and(a, b) : a \in Leaves, b \in Leaves}

\* `ColorSpecification spec(color);` or `SizeSpecification spec(size);`
DeclareLeaf(leaf) ==
  /\ program = "ocp" /\ declared = NoSpec
  /\ declared' = leaf
  /\ repeated' = FALSE
  /\ lastOp' = [kind |-> "declare"]
  /\ UNCHANGED <<program, all, filterResult, crashed, dipVars, srpVars>>

\* `auto spec = a && b;` with a and b named objects.
DeclareAnd(a, b) ==
  /\ program = "ocp" /\ declared = NoSpec
  /\ declared' = operator_and(a, b)
  /\ repeated' = FALSE
  /\ lastOp' = [kind |-> "declare"]
  /\ UNCHANGED <<program, all, filterResult, crashed, dipVars, srpVars>>

\* `auto spec = (a && b) && c;` with a, b and c named objects.
DeclareAndOfTemporary(a, b, c) ==
  /\ program = "ocp" /\ declared = NoSpec
  /\ declared' = and_of_temporary(a, b, c)
  /\ repeated' = FALSE
  /\ lastOp' = [kind |-> "declare"]
  /\ UNCHANGED <<program, all, filterResult, crashed, dipVars, srpVars>>

\* `bf.filter(all, spec)`
Filter ==
  /\ program = "ocp" /\ declared # NoSpec /\ ~crashed
  /\ \E out \in filter(all, declared) :
       /\ filterResult' = out.result
       /\ crashed' = out.crashed
  /\ repeated' = (lastOp.kind = "filter")
  /\ lastOp' = [kind |-> "filter"]
  /\ UNCHANGED <<program, all, declared, dipVars, srpVars>>

NextOCP ==
  \/ \E leaf \in Leaves : DeclareLeaf(leaf)
  \/ \E a \in Operands, b \in Leaves : DeclareAnd(a, b)
  \/ \E a \in Leaves, b \in Operands : DeclareAnd(a, b)
  \/ \E a \in Leaves, b \in Leaves, c \in Leaves : DeclareAndOfTemporary(a, b, c)
  \/ Filter

InitOCP ==
  /\ program = "ocp"
  /\ lastOp = NoOp
  /\ repeated = FALSE
  /\ all \in ItemSeqs
  /\ declared = NoSpec
  /\ filterResult = <<>>
  /\ crashed = FALSE
  /\ InitDIPVars /\ InitSRPVars

SpecOCP == InitOCP /\ [][NextOCP]_vars

\* No object the specification refers to, at any depth, has been destroyed.
RECURSIVE WellFormed(_)
WellFormed(s) ==
  /\ s.alive
  /\ s.kind = "and" => WellFormed(s.first) /\ WellFormed(s.second)

\* What a specification whose objects are all alive says of a product.
RECURSIVE Holds(_, _)
Holds(s, p) ==
  CASE s.kind = "color" -> Product(p).color = s.color
    [] s.kind = "size"  -> Product(p).size = s.size
    [] s.kind = "and"   -> Holds(s.first, p) /\ Holds(s.second, p)

InSeq(x, seq) == \E i \in 1..Len(seq) : seq[i] = x

\* sub is seq with some positions left out, the others in their order.
IsSubsequence(sub, seq) ==
  \E f \in [1..Len(sub) -> 1..Len(seq)] :
    /\ \A i \in 1..Len(sub) : seq[f[i]] = sub[i]
    /\ \A i \in 1..Len(sub), j \in 1..Len(sub) : i < j => f[i] < f[j]

Returned == lastOp.kind = "filter" /\ ~crashed

\* C2: filter(items, spec) returns exactly the items spec.is_satisfied holds
\* for, as a subsequence of items in their original order, of length at most
\* |items|; an empty input, or a specification no item satisfies, gives an empty
\* output.  (What is_satisfied "holds for" is defined when every object the
\* specification refers to is alive.)
C2_FilterIsStableSelection ==
  Returned =>
    /\ IsSubsequence(filterResult, all)
    /\ Len(filterResult) <= Len(all)
    /\ all = <<>> => filterResult = <<>>
    /\ WellFormed(declared) =>
         /\ filterResult = SelectSeq(all, LAMBDA p : Holds(declared, p))
         /\ (\A i \in 1..Len(all) : ~Holds(declared, all[i])) => filterResult = <<>>

\* main's first call: the green things of [apple, tree, house].
C2_Witness ==
  /\ Returned
  /\ all = <<"apple", "tree", "house">>
  /\ declared = ColorSpecification("green")
  /\ filterResult = <<"apple", "tree">>

\* The items of seq that both ra and rb hold, in the order of seq.
Intersection(seq, ra, rb) == SelectSeq(seq, LAMBDA p : InSeq(p, ra) /\ InSeq(p, rb))

\* C3: an AndSpecification(A, B) is satisfied by an item iff A and B both are,
\* so filter(items, A && B) is the intersection, by item identity and in the
\* order of items, of filter(items, A) and filter(items, B).
C3_AndIsIntersection ==
  (Returned /\ declared.kind = "and" /\ WellFormed(declared)) =>
    LET A == declared.first
        B == declared.second
    IN /\ \A i \in 1..Len(all) :
            (is_satisfied(declared, all[i]) = {"true"})
              <=> (/\ is_satisfied(A, all[i]) = {"true"}
                   /\ is_satisfied(B, all[i]) = {"true"})
       /\ \A ra \in filter(all, A), rb \in filter(all, B) :
            /\ ~ra.crashed /\ ~rb.crashed
            /\ filterResult = Intersection(all, ra.result, rb.result)

\* main's second call: green && large keeps the tree alone.
C3_Witness ==
  /\ Returned
  /\ all = <<"apple", "tree", "house">>
  /\ declared = operator_and(ColorSpecification("green"), SizeSpecification("large"))
  /\ filterResult = <<"tree">>

\* The same conjunction with the operands regrouped or swapped, every object
\* of it a named one.
Swapped(s) == operator_and(s.second, s.first)

RightNested(s) ==
  operator_and(s.first.first, operator_and(s.first.second, s.second))

SameAsFilterOf(s) == filter(all, s) = {[crashed |-> FALSE, result |-> filterResult]}

\* C4: AND-composition is commutative and associative in result:
\* filter(items, A && B) = filter(items, B && A) and
\* filter(items, (A && B) && C) = filter(items, A && (B && C)).
C4_AndCommutesAndAssociates ==
  (lastOp.kind = "filter" /\ declared.kind = "and") =>
    /\ ~crashed
    /\ declared.first.alive => SameAsFilterOf(Swapped(declared))
    /\ declared.first.kind = "and" => SameAsFilterOf(RightNested(declared))

\* What does hold: the same, for a composite whose every operand is a named
\* object, alive when filter runs.
C4_HoldsForNamedOperands ==
  (lastOp.kind = "filter" /\ declared.kind = "and" /\ WellFormed(declared)) =>
    /\ ~crashed
    /\ SameAsFilterOf(Swapped(declared))
    /\ declared.first.kind = "and" => SameAsFilterOf(RightNested(declared))

(***************************************************************************)
(* SingleResponsibility.cpp                                                *)
(***************************************************************************)

\* How many Journal::add calls a behaviour makes at most: with every text, with
\* one text only (long enough for a two-digit index), and when it also saves.
MaxAdds == 6

MaxAddsOneText == 10

MaxAddsSaved == 2

\* The Journal objects of the process.
Journals == {"diary", "notes"}

\* The entry texts: a word, and a text that holds a line break.
Texts == {<<"a">>, <<"b", "\n">>}

\* The destinations, and what the file system does with each: "diary.txt" can be
\* opened and written, "locked.txt" cannot be opened for writing, "full.txt" is
\* opened and truncated and then a write fails.
Dests == {"diary.txt", "locked.txt", "full.txt"}

Device(dest) ==
  CASE dest = "diary.txt"  -> "ok"
    [] dest = "locked.txt" -> "unopenable"
    [] dest = "full.txt"   -> "full"

\* What every destination holds before the program runs.
OldContent == <<"o", "l", "d", "\n">>

Digits == <<"0", "1", "2", "3", "4", "5", "6", "7", "8", "9">>

\* std::to_string of a non-negative int.
RECURSIVE to_string(_)
to_string(n) ==
  IF n < 10 THEN <<Digits[n + 1]>>
  ELSE to_string(n \div 10) \o <<Digits[(n % 10) + 1]>>

\* Journal::add with ++count for count++.
add_preincrement(entries, cnt, entry) ==
  Append(entries, to_string(cnt + 1) \o <<":", " ">> \o entry)

\* entries.push_back(std::to_string(count++) + ": " + entry): the new entries.
add(entries, cnt, entry) ==
  Append(entries, to_string(cnt) \o <<":", " ">> \o entry)

\* count declared without `static`: every call starts from 1 again.
count_not_static(cnt) == 1

\* The value count++ leaves in the static counter.
count_after_add(cnt) == cnt + 1

\* for (auto& s : entries) ofs << s << endl;  what a stream that takes every
\* write ends up holding.
RECURSIVE write_lines(_)
write_lines(entries) ==
  IF entries = <<>> THEN <<>>
  ELSE entries[1] \o <<"\n">> \o write_lines(Tail(entries))

\* What a save can leave behind, and whether its stream ended failed.
save_outcomes(entries, content, device) ==
  CASE device = "ok" ->
         {[content |-> write_lines(entries), failed |-> FALSE]}
    [] device = "unopenable" ->
         {[content |-> content, failed |-> TRUE]}
    [] device = "full" ->
         IF entries = <<>> THEN {[content |-> <<>>, failed |-> FALSE]}
         ELSE {[content |-> write_lines(SubSeq(entries, 1, k)), failed |-> TRUE] :
                 k \in 0..(Len(entries) - 1)}

\* PersistenceManager::save with the stream opened in append mode.
save_appending(entries, content, device) ==
  {[o EXCEPT !.content = IF device = "unopenable" THEN content ELSE content \o @] :
     o \in save_outcomes(entries, content, device)}

\* PersistenceManager::save: ofstream ofs(filename) truncates what it opens.
persistence_save(entries, content, device) == save_outcomes(entries, content, device)

\* Journal::save, the same code as a member.
journal_save(entries, content, device) == save_outcomes(entries, content, device)

Add(j, entry) ==
  /\ program = "srp"
  /\ journals' = [journals EXCEPT ![j] = add(@, count, entry)]
  /\ count' = count_after_add(count)
  /\ calls' = Append(calls, [journal |-> j, text |-> entry])
  /\ repeated' = (lastOp.kind = "add" /\ lastOp.arg = <<j, entry>>)
  /\ lastOp' = [kind |-> "add", arg |-> <<j, entry>>]
  /\ UNCHANGED <<program, files, streamFailed, callerSees, dipVars, ocpVars>>

\* pm.save(journal, filename): returns void and throws nothing, whatever the
\* stream did.
PersistenceSave(j, dest) ==
  /\ program = "srp"
  /\ \E out \in persistence_save(journals[j], files[dest], Device(dest)) :
       /\ files' = [files EXCEPT ![dest] = out.content]
       /\ streamFailed' = out.failed
  /\ callerSees' = "returned"
  /\ repeated' = (lastOp.kind = "PersistenceManager::save" /\ lastOp.arg = <<j, dest>>)
  /\ lastOp' = [kind |-> "PersistenceManager::save", arg |-> <<j, dest>>]
  /\ UNCHANGED <<program, count, journals, calls, dipVars, ocpVars>>

\* journal.save(filename)
JournalSave(j, dest) ==
  /\ program = "srp"
  /\ \E out \in journal_save(journals[j], files[dest], Device(dest)) :
       /\ files' = [files EXCEPT ![dest] = out.content]
       /\ streamFailed' = out.failed
  /\ callerSees' = "returned"
  /\ repeated' = (lastOp.kind = "Journal::save" /\ lastOp.arg = <<j, dest>>)
  /\ lastOp' = [kind |-> "Journal::save", arg |-> <<j, dest>>]
  /\ UNCHANGED <<program, count, journals, calls, dipVars, ocpVars>>

\* A process that only adds.
NextAdd ==
  \E j \in Journals, entry \in Texts : Len(calls) < MaxAdds /\ Add(j, entry)

\* A process that adds and saves.
NextSRP ==
  \/ \E j \in Journals, entry \in Texts : Len(calls) < MaxAddsSaved /\ Add(j, entry)
  \/ \E j \in Journals, dest \in Dests : PersistenceSave(j, dest)
  \/ \E j \in Journals, dest \in Dests : JournalSave(j, dest)

InitSRP ==
  /\ program = "srp"
  /\ lastOp = NoOp
  /\ repeated = FALSE
  /\ count = 1
  /\ journals = [j \in Journals |-> <<>>]
  /\ calls = <<>>
  /\ files = [dest \in Dests |-> OldContent]
  /\ streamFailed = FALSE
  /\ callerSees = "nothing"
  /\ InitDIPVars /\ InitOCPVars

\* A process that only adds, always the same text.
NextCount ==
  \E j \in Journals : Len(calls) < MaxAddsOneText /\ Add(j, <<"a">>)

SpecAdd == InitSRP /\ [][NextAdd]_vars

SpecCount == InitSRP /\ [][NextCount]_vars

SpecSRP == InitSRP /\ [][NextSRP]_vars

DigitValue(c) == CHOOSE v \in 0..9 : Digits[v + 1] = c

IsDigit(c) == \E v \in 0..9 : Digits[v + 1] = c

\* The number a string of decimal digits writes.
RECURSIVE ParseNat(_)
ParseNat(d) ==
  IF d = <<>> THEN 0
  ELSE 10 * ParseNat(SubSeq(d, 1, Len(d) - 1)) + DigitValue(d[Len(d)])

\* e is "{k}: {text}": k in decimal with no leading zero, a colon, a space, text.
Formatted(e, k, text) ==
  \E n \in 1..Len(e) :
    LET d == SubSeq(e, 1, n)
    IN /\ \A i \in 1..n : IsDigit(d[i])
       /\ d[1] # "0"
       /\ ParseNat(d) = k
       /\ SubSeq(e, n + 1, Len(e)) = <<":", " ">> \o text

\* The call numbers, counted over the whole process, of the add calls on j.
CallsOn(j) ==
  SelectSeq([k \in 1..Len(calls) |-> k], LAMBDA k : calls[k].journal = j)

\* C5: Journal.add called N times produces N entries in that journal, in call
\* order, with strictly increasing indices with no gaps, the i-th entry being
\* "{i}: {text_i}".
C5_IndexIsPositionInJournal ==
  \A j \in Journals :
    LET on == CallsOn(j)
    IN /\ Len(journals[j]) = Len(on)
       /\ \A i \in 1..Len(on) : Formatted(journals[j][i], i, calls[on[i]].text)

\* C5 as amended: N add calls on a journal produce N entries in it, in call
\* order, the i-th being "{k_i}: {text_i}" with k_i the number of add calls made
\* in the process, on any journal, up to and including that one; the indices
\* increase strictly, and are 1..N without gaps when no other journal was
\* added to.
C5_IndexIsCallNumber ==
  \A j \in Journals :
    LET on == CallsOn(j)
    IN /\ Len(journals[j]) = Len(on)
       /\ \A i \in 1..Len(on) : Formatted(journals[j][i], on[i], calls[on[i]].text)
       /\ \A i \in 1..Len(on), h \in 1..Len(on) : i < h => on[i] < on[h]
       /\ Len(on) = Len(calls) =>
            \A i \in 1..Len(on) : Formatted(journals[j][i], i, calls[i].text)

\* The notes written to first, then the diary twice, with different texts.
C5_Witness ==
  /\ journals["notes"] = <<<<"1", ":", " ", "a">>>>
  /\ journals["diary"] = <<<<"2", ":", " ", "b", "\n">>, <<"3", ":", " ", "a">>>>

\* The entries of all journals that carry index k.
EntriesWithIndex(k) ==
  {<<j, i>> \in Journals \X (1..Len(calls)) :
     i <= Len(journals[j]) /\ \E text \in Texts : Formatted(journals[j][i], k, text)}

\* C6: the index is one process-wide counter that starts at 1 and is shared by
\* all journals: the k-th add call overall appends an entry with index k to the
\* journal it was called on, no index is used twice, and the counter never
\* decreases or resets.
C6_OneCounterForAllJournals ==
  /\ [](/\ count = Len(calls) + 1
        /\ \A k \in 1..Len(calls) :
             /\ Cardinality(EntriesWithIndex(k)) = 1
             /\ \E e \in EntriesWithIndex(k) : e[1] = calls[k].journal)
  /\ [][/\ count' >= count
        /\ calls' # calls =>
             LET c == calls'[Len(calls')]
                 es == journals'[c.journal]
             IN /\ es = Append(journals[c.journal], es[Len(es)])
                /\ Formatted(es[Len(es)], Len(calls'), c.text)
                /\ \A j \in Journals \ {c.journal} : journals'[j] = journals[j]]_vars

\* Ten adds made, the ninth on the diary and the tenth on the notes.
C6_Witness ==
  /\ count = 11
  /\ journals["diary"][Len(journals["diary"])] = <<"9", ":", " ", "a">>
  /\ journals["notes"][Len(journals["notes"])] = <<"1", "0", ":", " ", "a">>

\* What reading a file line by line (std::getline until it fails) yields.
RECURSIVE ReadLines(_)
ReadLines(content) ==
  IF content = <<>> THEN <<>>
  ELSE LET ends == {i \in 1..Len(content) : content[i] = "\n"}
           n == IF ends = {} THEN Len(content) + 1
                ELSE CHOOSE i \in ends : \A h \in ends : i <= h
       IN <<SubSeq(content, 1, n - 1)>> \o ReadLines(SubSeq(content, n + 1, Len(content)))

\* Where entry i starts in a file that holds every entry followed by a line break.
RECURSIVE Offset(_, _)
Offset(entries, i) ==
  IF i = 1 THEN 1 ELSE Offset(entries, i - 1) + Len(entries[i - 1]) + 1

\* content is the entries, each followed by a line break, and nothing else.
OnePerLine(content, entries) ==
  /\ Len(content) = Offset(entries, Len(entries) + 1) - 1
  /\ \A i \in 1..Len(entries) :
       SubSeq(content, Offset(entries, i), Offset(entries, i + 1) - 1)
         = entries[i] \o <<"\n">>

NoLineBreakIn(entries) ==
  \A i \in 1..Len(entries) : \A h \in 1..Len(entries[i]) : entries[i][h] # "\n"

SaveKinds == {"PersistenceManager::save", "Journal::save"}

\* C7: PersistenceManager::save(journal, destination) leaves the destination
\* holding exactly the journal's entries, one per line, in insertion order,
\* whatever it held before; reading it back yields journal.entries; the journal
\* is unchanged.  (Stated of the saves whose stream did not fail.)
C7_SaveRoundTrips ==
  (lastOp.kind = "PersistenceManager::save" /\ ~streamFailed) =>
    LET entries == journals[lastOp.arg[1]]
        content == files[lastOp.arg[2]]
    IN /\ OnePerLine(content, entries)
       /\ ReadLines(content) = entries

\* C7 as amended: a save whose stream did not fail leaves the destination
\* holding exactly the entries, each followed by a line break, in insertion
\* order, whatever it held before; reading it back line by line yields
\* journal.entries when no entry holds a line break; a save that cannot open the
\* destination leaves it as it was; the journal is unchanged by a save.
C7_SaveReplacesContentWhenItSucceeds ==
  /\ [](lastOp.kind = "PersistenceManager::save" /\ ~streamFailed =>
          LET entries == journals[lastOp.arg[1]]
              content == files[lastOp.arg[2]]
          IN /\ OnePerLine(content, entries)
             /\ NoLineBreakIn(entries) => ReadLines(content) = entries)
  /\ [][lastOp'.kind = "PersistenceManager::save" =>
          /\ journals' = journals /\ count' = count
          /\ Device(lastOp'.arg[2]) = "unopenable" => files' = files]_vars

\* main: two entries saved to diary.txt over its old content, and read back.
C7_Witness ==
  /\ lastOp.kind = "PersistenceManager::save"
  /\ lastOp.arg = <<"diary", "diary.txt">>
  /\ ~streamFailed
  /\ journals["diary"] = <<<<"1", ":", " ", "a">>, <<"2", ":", " ", "a">>>>
  /\ ReadLines(files["diary.txt"]) = journals["diary"]

\* C8: a save that cannot open or write its destination gives its caller an
\* error, not a silent success.
C8_FailureIsReported ==
  (lastOp.kind \in SaveKinds /\ streamFailed) => callerSees = "error"

(***************************************************************************)
(* The three programs together: a behaviour is a run of one of them.       *)
(***************************************************************************)

Init == InitDIP \/ InitOCP \/ InitSRP

Next == NextDIP \/ NextOCP \/ NextSRP

Spec == Init /\ [][Next]_vars

\* What a program can observe of its own state.
observable == <<relations, queryResult, all, declared, filterResult, crashed,
                count, journals, files>>

\* C10: every operation is idempotent: run a second time with the same
\* arguments it gives the same result and the same state as run once.
C10_EveryOperationIdempotent ==
  [][repeated' => observable' = observable]_vars

\* C10 as amended: the operations that only read are idempotent: a repeated
\* find_all_children_of, and a repeated filter with a specification whose
\* objects are all alive, return what the first call returned and change
\* nothing; a repeated save whose stream does not fail leaves the destination
\* as the first save left it.  Journal::add and add_parent_and_child are not
\* idempotent: each repeated call appends again.
C10_ReadsAndSavesIdempotent ==
  [][repeated' =>
       /\ lastOp'.kind = "find_all_children_of" => observable' = observable
       /\ (lastOp'.kind = "filter" /\ WellFormed(declared)) => observable' = observable
       /\ (lastOp'.kind \in SaveKinds /\ ~streamFailed /\ ~streamFailed') =>
            observable' = observable
       /\ lastOp'.kind = "add" =>
            LET j == lastOp'.arg[1]
            IN /\ Len(journals'[j]) = Len(journals[j]) + 1
               /\ journals'[j][Len(journals'[j])] # journals[j][Len(journals[j])]
       /\ lastOp'.kind = "add_parent_and_child" =>
            Len(relations') = Len(relations) + 2]_vars

\* A journal with an entry saved twice running to diary.txt.
C10_Witness ==
  /\ repeated
  /\ lastOp.kind = "PersistenceManager::save"
  /\ lastOp.arg[2] = "diary.txt"
  /\ ~streamFailed
  /\ journals[lastOp.arg[1]] # <<>>
  /\ ReadLines(files["diary.txt"]) = journals[lastOp.arg[1]]

=============================================================================
